---- MODULE Spec2Model ----
(***************************************************************************)
(* Model of main.py: the Pipedrive webhook of the lead-scoring API.        *)
(*                                                                         *)
(* A request is followed through verify_credentials, pipedrive_webhook,    *)
(* get_prediction_for_deal and update_pipedrive_deal.  Strings whose       *)
(* characters matter (column names, category values) are sequences of      *)
(* tokens: the characters "[", "]", "<" and "_" are always tokens of their *)
(* own, every other token is a run of characters the regex of line 56      *)
(* leaves alone.  Python/JSON values are records [t, n, s]: t is the type  *)
(* ("absent" for a key that is not in the dict, "null" for None, "num",    *)
(* "str"), n the number, s the string.                                     *)
(***************************************************************************)
EXTENDS Integers, Sequences, FiniteSets, TLC

VARIABLES
    model_columns,        \* line 15: the registry loaded at start
    PIPEDRIVE_API_KEY,    \* line 18
    LEAD_SCORE_FIELD_KEY, \* line 19
    WEBHOOK_USER,         \* line 20
    WEBHOOK_PASSWORD,     \* line 21
    pc,                   \* position of the request being served
    credentials,          \* HTTPBasicCredentials of the request
    webhook_data,         \* line 83: how the body holds "current"
    deal_info,            \* webhook_data.get("current", {}) as far as read
    deal_for_model,       \* lines 97-104
    input_df_dummies,     \* line 49
    final_df,             \* the frame handed to model.predict_proba
    probability,          \* line 59, in units of 1e-4
    calls,                \* scorer / CRM calls of this request, in order
    puts,                 \* the requests.put calls of this request
    log,                  \* what the request printed
    response              \* what the client got

config == <<model_columns, PIPEDRIVE_API_KEY, LEAD_SCORE_FIELD_KEY,
            WEBHOOK_USER, WEBHOOK_PASSWORD>>
vars == <<model_columns, PIPEDRIVE_API_KEY, LEAD_SCORE_FIELD_KEY,
          WEBHOOK_USER, WEBHOOK_PASSWORD, pc, credentials, webhook_data, deal_info,
          deal_for_model, input_df_dummies, final_df, probability, calls,
          puts, log, response>>

-----------------------------------------------------------------------------
(* Python values *)

Absent == [t |-> "absent", n |-> 0, s |-> <<>>]
None == [t |-> "null", n |-> 0, s |-> <<>>]
Num(k) == [t |-> "num", n |-> k, s |-> <<>>]
Str(x) == [t |-> "str", n |-> 0, s |-> x]

\* bool(v): None, 0 and "" are falsy
Truthy(v) ==
    CASE v.t = "num" -> v.n # 0
      [] v.t = "str" -> v.s # <<>>
      [] OTHER -> FALSE

\* dict.get(key, default): the default only when the key is not in the dict
Get(d, key, default) == IF d[key].t = "absent" THEN default ELSE d[key]

\* a or b
Or(a, b) == IF Truthy(a) THEN a ELSE b

\* str(v) inside an f-string, for the ids the messages print (numbers or
\* None)
PyStr(v) == IF v.t = "num" THEN ToString(v.n) ELSE "None"

Range(q) == {q[i] : i \in 1..Len(q)}

-----------------------------------------------------------------------------
(* Program constants *)

TARGET_PIPELINE_ID == 1

Sentinel == <<"desconhecido">>

\* the columns get_dummies is asked to encode, in the order of line 49
DummyColumns == <<"utm_campaign", "utm_content", "utm_medium", "utm_source", "utm_term">>

CategoricalFields == Range(DummyColumns)

-----------------------------------------------------------------------------
(* verify_credentials, lines 31-43 *)

\* lines 34-35: WEBHOOK_USER or ""
Stored(env) == Or(env, Str(<<>>))

\* a str of ASCII characters only: the token "ñ" stands for any character
\* outside ASCII
isascii(x) == \A i \in 1..Len(x) : x[i] # "ñ"

\* lines 38-39: secrets.compare_digest(a, b) of two str raises TypeError
\* when either holds a non-ASCII character
compare_digest_raises(a, b) == ~isascii(a) \/ ~isascii(b)

\* lines 38-39: what secrets.compare_digest returns when it does not raise
compare_digest(a, b) == a = b

\* lines 38-39 run both comparisons before line 41 looks at either result
CredentialsRaise(cred, user, password) ==
    compare_digest_raises(cred.username, Stored(user).s)
        \/ compare_digest_raises(cred.password, Stored(password).s)

\* line 41: is_user_correct and is_pass_correct
CredentialsValid(cred, user, password) ==
    compare_digest(cred.username, Stored(user).s)
        /\ compare_digest(cred.password, Stored(password).s)

\* line 28, HTTPBasic() with auto_error: no Authorization header (or another
\* scheme than Basic) is answered before verify_credentials runs
NotAuthenticated == [code |-> 401, status |-> "", message |-> <<"Not authenticated">>]

\* line 28, HTTPBasic(): a Basic header that is not base64 of ASCII
\* "user:password" is answered before verify_credentials runs
InvalidCredentials ==
    [code |-> 401, status |-> "", message |-> <<"Invalid authentication credentials">>]

Unauthorized == [code |-> 401, status |-> "", message |-> <<"Credenciais inválidas">>]

-----------------------------------------------------------------------------
(* get_prediction_for_deal, lines 46-60.  A one-row DataFrame is the       *)
(* sequence of its columns, each [name, value].                            *)

Names(df) == [i \in 1..Len(df) |-> df[i].name]

HasColumn(df, c) == \E i \in 1..Len(df) : df[i].name = c

\* df[c] of a frame that has the column (the first one of that name)
Value(df, c) == df[CHOOSE i \in 1..Len(df) : df[i].name = c
                                    /\ \A j \in 1..(i - 1) : df[j].name # c].value

\* the dummy column of one field: prefix, the separator "_", the category;
\* a None category is not a level (dummy_na=False) and gives no column
DummyOf(deal_data, f) ==
    IF deal_data[f].t = "str"
    THEN << [name |-> <<f, "_">> \o deal_data[f].s, value |-> 1] >>
    ELSE << >>

RECURSIVE DummiesFrom(_, _)
DummiesFrom(deal_data, i) ==
    IF i > Len(DummyColumns) THEN << >>
    ELSE DummyOf(deal_data, DummyColumns[i]) \o DummiesFrom(deal_data, i + 1)

\* line 48-49: the columns not encoded come first, then the dummies in the
\* order of the columns argument
get_dummies(deal_data) ==
    << [name |-> <<"valor">>, value |-> deal_data.valor.n] >>
        \o DummiesFrom(deal_data, 1)

\* the misfilled variant: fillna(1)
concat_fillna_one(columns, df) ==
    [i \in 1..Len(columns) |->
        [name |-> columns[i],
         value |-> IF HasColumn(df, columns[i]) THEN Value(df, columns[i]) ELSE 1]]
    \o SelectSeq(df, LAMBDA col : col.name \notin Range(columns))

\* lines 51-52: the empty frame of the registry's columns, concat with the
\* encoded row (the union of the columns, the registry's first), fillna(0)
concat_fillna(columns, df) ==
    [i \in 1..Len(columns) |->
        [name |-> columns[i],
         value |-> IF HasColumn(df, columns[i]) THEN Value(df, columns[i]) ELSE 0]]
    \o SelectSeq(df, LAMBDA col : col.name \notin Range(columns))

\* line 53: df[c] = v sets every column of that name, or appends a new one
SetColumn(df, c, v) ==
    IF HasColumn(df, c)
    THEN [i \in 1..Len(df) |-> IF df[i].name = c THEN [df[i] EXCEPT !.value = v] ELSE df[i]]
    ELSE Append(df, [name |-> c, value |-> v])

\* the selection left out: the union of the columns is kept
SelectAll(df, columns) == df

\* line 54: final_df[model_columns]
Select(df, columns) ==
    [i \in 1..Len(columns) |-> [name |-> columns[i], value |-> Value(df, columns[i])]]

\* lines 56-57: regex.sub("_", col) with the regex \[|\]|<
regex_sub(col) ==
    [i \in 1..Len(col) |-> IF col[i] \in {"[", "]", "<"} THEN "_" ELSE col[i]]

Rename(df) == [i \in 1..Len(df) |-> [df[i] EXCEPT !.name = regex_sub(df[i].name)]]

\* lines 51-57: the frame handed to the model
Align(columns, dummies) ==
    Rename(Select(SetColumn(concat_fillna(columns, dummies),
                            <<"ciclo_em_dias">>, 0), columns))

-----------------------------------------------------------------------------
(* update_pipedrive_deal, lines 63-77 *)

\* any() in place of all()
any_configured(api_key, field_key) == Truthy(api_key) \/ Truthy(field_key)

\* line 65: all([PIPEDRIVE_API_KEY, LEAD_SCORE_FIELD_KEY])
all_configured(api_key, field_key) == Truthy(api_key) /\ Truthy(field_key)

\* line 70: round(score * 100, 2) as the decimal it is, whole percents and
\* hundredths.  The score is in units of 1e-4: on that grid score * 100 has
\* at most two decimals and round() returns it unchanged.  (A finer score
\* is rounded by the value of the binary float score * 100, which integers
\* do not carry; the scorer of the model answers on the grid.)
round2(score) == [percent |-> score \div 100, hundredths |-> score % 100]

\* what requests.put can come back with: a response with a status below 400
\* (2xx, or a 1xx / 3xx that reaches the caller, such as 304 or a 3xx
\* without Location), a response with a status of 400-599, or no response
\* at all (ConnectionError, Timeout)
PutOutcomes == {"2xx", "1xx_3xx", "4xx_5xx", "transport_error"}

\* lines 73-74: requests.put raises on a transport error, raise_for_status
\* raises HTTPError for a status of 400-599 and for nothing else
raised(outcome) == outcome \in {"4xx_5xx", "transport_error"}

\* an except clause for the transport errors only
caught_transport_only(outcome) == outcome = "transport_error"

\* line 76: except requests.exceptions.RequestException, the base class of
\* HTTPError and of the transport errors
caught(outcome) == outcome \in {"4xx_5xx", "transport_error"}

-----------------------------------------------------------------------------
(* The responses of pipedrive_webhook, lines 89, 93, 109 *)

Ok(message) == [code |-> 200, status |-> "ok", message |-> message]

\* an exception that leaves the handler
ServerError == [code |-> 500, status |-> "", message |-> <<"Internal Server Error">>]

NoResponse == [code |-> 0, status |-> "", message |-> << >>]

MsgNoId == <<"Evento sem ID de negócio, ", "ignorado", ".">>
MsgIgnored(pipeline_id) == <<"Negócio ", "ignorado", " (funil ", PyStr(pipeline_id), ").">>
MsgProcessed(deal_id) == <<"Negócio ", PyStr(deal_id), " processado com sucesso.">>

\* the filter written as an ordering
is_target_or_above(pipeline_id) ==
    pipeline_id.t = "num" /\ pipeline_id.n >= TARGET_PIPELINE_ID

\* line 91, negated: pipeline_id == TARGET_PIPELINE_ID
is_target(pipeline_id) == pipeline_id = Num(TARGET_PIPELINE_ID)

-----------------------------------------------------------------------------
(* Bounds and the inputs drawn within them *)

MaxPipelineId == 2

\* what the Authorization header of a request is
Headers == {"missing", "malformed", "basic"}

Usernames == {<< >>, <<"user">>, <<"mallory">>}
Passwords == {<< >>, <<"pw">>, <<"guess">>}

DealIds == {Absent, None, Num(0), Num(7)}
PipelineIds == {Absent, None} \cup {Num(k) : k \in 1..MaxPipelineId}
Values == {Absent, None, Num(5000)}

Google == <<"google">>
Bracket == <<"a", "[", "b", "]">>
Novel == <<"novo">>

\* the values a categorical key of the body takes: not there, null, or a
\* category (one the registry knows, one with characters the regex
\* rewrites, one the registry never saw)
CategoryValues(f) ==
    {Absent, None} \cup
    CASE f = "utm_source" -> {Str(Google), Str(Bracket)}
      [] f = "utm_medium" -> {Str(<<"cpc">>)}
      [] f = "utm_campaign" -> {Str(Novel)}
      [] OTHER -> {}

Probabilities == {314, 8513}

Column(f, category) == <<f, "_">> \o category

\* a registry saved after the training columns were sanitized
RegistrySanitized ==
    << <<"valor">>,
       Column("utm_source", Google),
       <<"ciclo_em_dias">>,
       Column("utm_source", regex_sub(Bracket)),
       Column("utm_source", Sentinel),
       Column("utm_medium", <<"cpc">>),
       Column("utm_medium", Sentinel),
       Column("utm_campaign", Sentinel),
       Column("utm_content", Sentinel),
       Column("utm_term", Sentinel) >>

\* a registry saved with the column names get_dummies gave
RegistryRaw ==
    [i \in 1..Len(RegistrySanitized) |->
        IF i = 4 THEN Column("utm_source", Bracket) ELSE RegistrySanitized[i]]

Registries == {RegistrySanitized, RegistryRaw, << >>}

-----------------------------------------------------------------------------
(* State *)

NoCredentials == [header |-> "none", username |-> << >>, password |-> << >>]
NoDeal == [id |-> Absent, pipeline_id |-> Absent]
NoRecord == [valor |-> Absent]

Init ==
    /\ model_columns \in Registries
    /\ PIPEDRIVE_API_KEY \in {None, Str(<<"key">>)}
    /\ LEAD_SCORE_FIELD_KEY \in {None, Str(<<"field">>)}
    /\ WEBHOOK_USER \in {None, Str(<<"user">>), Str(<<"usu", "ñ">>)}
    /\ WEBHOOK_PASSWORD \in {None, Str(<<"pw">>), Str(<<"se", "ñ", "a">>)}
    /\ pc = "idle"
    /\ credentials = NoCredentials
    /\ webhook_data = "none"
    /\ deal_info = NoDeal
    /\ deal_for_model = NoRecord
    /\ input_df_dummies = << >>
    /\ final_df = << >>
    /\ probability = 0
    /\ calls = << >>
    /\ puts = << >>
    /\ log = << >>
    /\ response = NoResponse

\* a request arrives (lines 28, 31, 81): HTTPBasic reads the Authorization
\* header and answers 401 itself when no credentials can be read from it;
\* otherwise it hands the credentials to verify_credentials
Receive(header, username, password) ==
    /\ pc \in {"idle", "done"}
    /\ IF header = "basic"
       THEN /\ pc' = "verify"
            /\ credentials' = [header |-> header, username |-> username,
                               password |-> password]
            /\ response' = NoResponse
       ELSE /\ pc' = "done"
            /\ credentials' = [NoCredentials EXCEPT !.header = header]
            /\ response' = IF header = "missing" THEN NotAuthenticated
                           ELSE InvalidCredentials
    /\ webhook_data' = "none"
    /\ deal_info' = NoDeal
    /\ deal_for_model' = NoRecord
    /\ input_df_dummies' = << >>
    /\ final_df' = << >>
    /\ probability' = 0
    /\ calls' = << >>
    /\ puts' = << >>
    /\ log' = << >>
    /\ UNCHANGED config

\* lines 31-43: a TypeError of compare_digest leaves the dependency (500)
verify_credentials ==
    /\ pc = "verify"
    /\ IF CredentialsRaise(credentials, WEBHOOK_USER, WEBHOOK_PASSWORD)
       THEN pc' = "done" /\ response' = ServerError
       ELSE IF CredentialsValid(credentials, WEBHOOK_USER, WEBHOOK_PASSWORD)
       THEN pc' = "handler" /\ response' = response
       ELSE pc' = "done" /\ response' = Unauthorized
    /\ UNCHANGED <<config, credentials, webhook_data, deal_info, deal_for_model,
                   input_df_dummies, final_df, probability, calls, puts, log>>

\* lines 83-95: the body is read and the event filtered.  current is
\* "absent" (no such key: the default {}), "null" or "dict"
pipedrive_webhook(current, id, pipeline_id) ==
    /\ pc = "handler"
    /\ webhook_data' = current
    /\ UNCHANGED <<config, credentials, deal_for_model, input_df_dummies,
                   final_df, probability, calls, puts>>
    /\ IF current = "null"
       THEN \* None.get: AttributeError
            /\ pc' = "done"
            /\ response' = ServerError
            /\ UNCHANGED <<deal_info, log>>
       ELSE LET info == IF current = "absent" THEN NoDeal
                        ELSE [id |-> id, pipeline_id |-> pipeline_id]
                deal_id == Get(info, "id", None)
                pipeline == Get(info, "pipeline_id", None)
            IN  /\ deal_info' = info
                /\ IF ~Truthy(deal_id)
                   THEN /\ pc' = "done"
                        /\ response' = Ok(MsgNoId)
                        /\ log' = log
                   ELSE IF ~is_target(pipeline)
                   THEN /\ pc' = "done"
                        /\ response' = Ok(MsgIgnored(pipeline))
                        /\ log' = Append(log, "Ignorando")
                   ELSE /\ pc' = "score"
                        /\ response' = response
                        /\ log' = Append(log, "Processando")

\* lines 97-106 and get_prediction_for_deal, lines 46-60: the six fields are
\* read from deal_info (the body's values for them are drawn here, where
\* the handler first reads them), encoded, aligned and scored; the model
\* is opaque and answers with some probability p
get_prediction_for_deal(fields, p) ==
    /\ pc = "score"
    /\ LET info == [k \in DOMAIN deal_info \cup DOMAIN fields |->
                        IF k \in DOMAIN fields THEN fields[k] ELSE deal_info[k]]
           deal == [valor |-> Or(Get(info, "value", Num(0)), Num(0)),
                    utm_source |-> Get(info, "utm_source", Str(Sentinel)),
                    utm_medium |-> Get(info, "utm_medium", Str(Sentinel)),
                    utm_campaign |-> Get(info, "utm_campaign", Str(Sentinel)),
                    utm_content |-> Get(info, "utm_content", Str(Sentinel)),
                    utm_term |-> Get(info, "utm_term", Str(Sentinel))]
           dummies == get_dummies(deal)
           aligned == Align(model_columns, dummies)
       IN  /\ deal_info' = info
           /\ deal_for_model' = deal
           /\ input_df_dummies' = dummies
           /\ final_df' = aligned
           /\ calls' = Append(calls, "predict_proba")
    /\ probability' = p
    /\ pc' = "update"
    /\ UNCHANGED <<config, credentials, webhook_data, puts, log, response>>

\* line 107 and update_pipedrive_deal, lines 63-73: without both keys a
\* warning, no PUT, and the response of line 109; with them the PUT is sent
\* and the handler waits in requests.put
update_pipedrive_deal ==
    /\ pc = "update"
    /\ UNCHANGED <<config, credentials, webhook_data, deal_info, deal_for_model,
                   input_df_dummies, final_df, probability>>
    /\ IF ~all_configured(PIPEDRIVE_API_KEY, LEAD_SCORE_FIELD_KEY)
       THEN /\ pc' = "done"
            /\ log' = Append(log, "AVISO")
            /\ UNCHANGED <<calls, puts>>
            /\ response' = Ok(MsgProcessed(deal_info.id))
       ELSE /\ pc' = "put"
            /\ puts' = Append(puts, [deal_id |-> deal_info.id,
                                     api_token |-> PIPEDRIVE_API_KEY.s,
                                     field |-> LEAD_SCORE_FIELD_KEY.s,
                                     value |-> round2(probability),
                                     outcome |-> "pending"])
            /\ calls' = Append(calls, "put")
            /\ UNCHANGED <<log, response>>

\* lines 73-77 and 109: requests.put comes back; what it raised, or what
\* raise_for_status raises, is caught and printed; then the response
put_returns(outcome) ==
    /\ pc = "put"
    /\ pc' = "done"
    /\ UNCHANGED <<config, credentials, webhook_data, deal_info, deal_for_model,
                   input_df_dummies, final_df, probability, calls>>
    /\ puts' = [puts EXCEPT ![Len(puts)].outcome = outcome]
    /\ IF ~raised(outcome)
       THEN /\ log' = Append(log, "atualizado")
            /\ response' = Ok(MsgProcessed(deal_info.id))
       ELSE IF caught(outcome)
       THEN /\ log' = Append(log, "ERRO")
            /\ response' = Ok(MsgProcessed(deal_info.id))
       ELSE \* the exception leaves the handler
            /\ log' = log
            /\ response' = ServerError

Next ==
    \/ \E u \in Usernames, p \in Passwords : Receive("basic", u, p)
    \/ \E header \in Headers \ {"basic"} : Receive(header, << >>, << >>)
    \/ verify_credentials
    \/ \E current \in {"absent", "null", "dict"}, id \in DealIds, pipeline_id \in PipelineIds :
          pipedrive_webhook(current, id, pipeline_id)
    \/ \E value \in Values, p \in Probabilities :
          \E src \in CategoryValues("utm_source"), med \in CategoryValues("utm_medium"),
             cam \in CategoryValues("utm_campaign"), con \in CategoryValues("utm_content"),
             ter \in CategoryValues("utm_term") :
             get_prediction_for_deal(
                 [value |-> value, utm_source |-> src, utm_medium |-> med,
                  utm_campaign |-> cam, utm_content |-> con, utm_term |-> ter], p)
    \/ update_pipedrive_deal
    \/ \E outcome \in PutOutcomes : put_returns(outcome)

Spec == Init /\ [][Next]_vars

-----------------------------------------------------------------------------
(* Properties *)

Contains(message, word) == \E i \in 1..Len(message) : message[i] = word

\* the handler got as far as reading the body
BodyRead == webhook_data # "none"

\* the scorer ran for this request
Scored == calls # << >>

Target == Num(TARGET_PIPELINE_ID)

\* C1: an event of another pipeline than the target, with current.id there,
\* is answered "ok" with a message containing "ignorado", and neither the
\* scorer nor the CRM is called for it.
C1_OtherPipelineIgnored ==
    (webhook_data = "dict" /\ deal_info.id.t # "absent"
        /\ Get(deal_info, "pipeline_id", None) # Target)
    => /\ pc = "done"
       /\ response.code = 200
       /\ response.status = "ok"
       /\ Contains(response.message, "ignorado")
       /\ calls = << >>
       /\ puts = << >>

C1_Witness ==
    /\ pc = "done"
    /\ webhook_data = "dict"
    /\ deal_info.id = Num(7)
    /\ deal_info.pipeline_id = Num(2)
    /\ response = Ok(MsgIgnored(Num(2)))
    /\ calls = << >>

\* C2: an authenticated event with no current.id (current absent or null,
\* or without an id) is answered "ok", with no scoring and no write-back.
C2_NoIdAcknowledged ==
    (pc = "done" /\ BodyRead
        /\ (webhook_data \in {"absent", "null"} \/ deal_info.id.t \in {"absent", "null"}))
    => /\ response.status = "ok"
       /\ calls = << >>
       /\ puts = << >>

\* C3 as stated: every authenticated event with an id and the target
\* pipeline is scored once, then written back with one PUT for its deal,
\* and only then answered.
C3_AlwaysWrittenBack ==
    (pc = "done" /\ webhook_data = "dict" /\ Truthy(deal_info.id)
        /\ Get(deal_info, "pipeline_id", None) = Target)
    => /\ calls = <<"predict_proba", "put">>
       /\ Len(puts) = 1
       /\ puts[1].deal_id = deal_info.id

\* C3, amended: every authenticated event whose id is truthy and whose
\* pipeline is the target is scored exactly once on its six fields before
\* anything is answered; the PUT for its deal follows the scoring and
\* precedes the response when both PIPEDRIVE_API_KEY and
\* LEAD_SCORE_FIELD_KEY are configured, and is skipped with a warning when
\* one is not; the answer is the "processado" one.
C3_ScoredThenWrittenBack ==
    (webhook_data = "dict" /\ Truthy(deal_info.id)
        /\ Get(deal_info, "pipeline_id", None) = Target)
    => /\ pc \in {"score", "update", "put", "done"}
       /\ (pc = "score" => calls = << >> /\ response = NoResponse)
       /\ (pc = "update" => calls = <<"predict_proba">> /\ puts = << >>
                              /\ response = NoResponse)
       /\ (pc = "put" => calls = <<"predict_proba", "put">> /\ Len(puts) = 1
                           /\ puts[1].deal_id = deal_info.id
                           /\ response = NoResponse)
       /\ (pc \in {"update", "put", "done"} =>
              /\ deal_for_model.valor = (IF Truthy(deal_info.value) THEN deal_info.value ELSE Num(0))
              /\ \A f \in CategoricalFields :
                    deal_for_model[f] = (IF deal_info[f].t = "absent" THEN Str(Sentinel)
                                         ELSE deal_info[f]))
       /\ (pc = "done" =>
              /\ response = Ok(MsgProcessed(deal_info.id))
              /\ IF Truthy(PIPEDRIVE_API_KEY) /\ Truthy(LEAD_SCORE_FIELD_KEY)
                 THEN /\ calls = <<"predict_proba", "put">>
                      /\ Len(puts) = 1
                      /\ puts[1].deal_id = deal_info.id
                 ELSE /\ calls = <<"predict_proba">>
                      /\ puts = << >>
                      /\ Contains(log, "AVISO"))

C3_Witness ==
    /\ pc = "done"
    /\ deal_info.id = Num(7)
    /\ calls = <<"predict_proba", "put">>
    /\ puts[1].deal_id = Num(7)
    /\ response = Ok(MsgProcessed(Num(7)))

\* the request was let through to the handler, or something was done for it
Processed == pc \in {"handler", "score", "update", "put"} \/ BodyRead \/ Scored \/ puts # << >>

\* C4: a request is processed only if its username and password both equal
\* the two configured secret values; every other request is rejected as
\* unauthorized (401) with nothing read, scored or written back, and the
\* rejection is the same whether the username, the password or both were
\* wrong.
C4_OnlyConfiguredSecrets ==
    LET user_ok == WEBHOOK_USER.t = "str" /\ credentials.username = WEBHOOK_USER.s
        pass_ok == WEBHOOK_PASSWORD.t = "str" /\ credentials.password = WEBHOOK_PASSWORD.s
    IN  /\ Processed => credentials.header = "basic" /\ user_ok /\ pass_ok
        /\ (pc = "done" /\ ~(credentials.header = "basic" /\ user_ok /\ pass_ok)) =>
              /\ response.code = 401
              /\ ~BodyRead
              /\ calls = << >>
              /\ puts = << >>
        /\ (pc = "done" /\ credentials.header = "basic" /\ ~(user_ok /\ pass_ok)) =>
              response = Unauthorized

\* C5 as stated: a failed write-back (transport error or non-2xx response)
\* is printed as a failure and swallowed: the PUT is made at most once per
\* event and the response is the "ok" response of a successful write-back.
C5_NonSuccessLoggedAndSwallowed ==
    /\ Len(puts) <= 1
    /\ (pc = "done" /\ puts # << >>) =>
          /\ response = Ok(MsgProcessed(deal_info.id))
          /\ puts[1].outcome # "2xx" => Contains(log, "ERRO")

\* C5, amended: a write-back that fails by a transport error or by a
\* response with a status of 400-599 is printed as ERRO and swallowed; a
\* response with any status below 400 (2xx, or a 1xx / 3xx that reaches the
\* caller) raises nothing and is printed as an update.  In every case the
\* PUT is made at most once per event and the response is the same "ok"
\* response.
C5_WriteBackFailureSwallowed ==
    /\ Len(puts) <= 1
    /\ Len(SelectSeq(calls, LAMBDA c : c = "put")) = Len(puts)
    /\ (pc = "put" => response = NoResponse /\ Len(puts) = 1)
    /\ (pc = "done" /\ puts # << >>) =>
          /\ response = Ok(MsgProcessed(deal_info.id))
          /\ puts[1].outcome \in {"4xx_5xx", "transport_error"} =>
                Contains(log, "ERRO") /\ ~Contains(log, "atualizado")
          /\ puts[1].outcome \in {"2xx", "1xx_3xx"} =>
                Contains(log, "atualizado") /\ ~Contains(log, "ERRO")

C5_Witness ==
    /\ pc = "done"
    /\ Len(puts) = 1
    /\ puts[1].outcome = "4xx_5xx"
    /\ response = Ok(MsgProcessed(deal_info.id))
    /\ Contains(log, "ERRO")

\* C6: a categorical field that is absent from current, or there with null,
\* reaches the encoder as "desconhecido"; the encoder never gets None.
C6_SentinelForAbsentOrNull ==
    Scored =>
        \A f \in CategoricalFields :
            /\ deal_info[f].t \in {"absent", "null"} => deal_for_model[f] = Str(Sentinel)
            /\ deal_for_model[f].t # "null"

\* C7 as stated: the frame handed to the scorer has exactly model_columns
\* as its column names, in that order.
C7_NamesAreRegistry == Scored => Names(final_df) = model_columns

\* C7, amended: the frame handed to the scorer has as its column names
\* model_columns with every "[", "]" and "<" replaced by "_" (model_columns
\* itself when it holds none of them): same length, same order, nothing
\* missing and nothing extra, whatever fields the record lacks.
C7_NamesAreSanitizedRegistry ==
    Scored =>
        /\ Len(final_df) = Len(model_columns)
        /\ \A i \in 1..Len(model_columns) :
              /\ Len(final_df[i].name) = Len(model_columns[i])
              /\ \A k \in 1..Len(model_columns[i]) :
                    final_df[i].name[k] =
                        (IF model_columns[i][k] \in {"[", "]", "<"} THEN "_"
                         ELSE model_columns[i][k])

\* a record without utm_term and with a category the registry never saw
C7_Witness ==
    /\ Scored
    /\ model_columns = RegistryRaw
    /\ deal_info.utm_term = Absent
    /\ deal_info.utm_campaign = Str(Novel)
    /\ Len(final_df) = Len(model_columns)

\* C8: every registry column but ciclo_em_dias holds the encoder's value
\* when the encoder made that column and 0 otherwise, ciclo_em_dias holds 0,
\* the encoder's other columns are dropped and a probability is returned.
C8_AlignedValues ==
    Scored =>
        /\ Len(final_df) = Len(model_columns)
        /\ \A i \in 1..Len(model_columns) :
              final_df[i].value =
                  (IF model_columns[i] = <<"ciclo_em_dias">> THEN 0
                   ELSE IF HasColumn(input_df_dummies, model_columns[i])
                        THEN Value(input_df_dummies, model_columns[i])
                   ELSE 0)
        /\ pc \in {"update", "put", "done"}
        /\ probability \in Probabilities

\* known and unseen categories in one record
C8_Witness ==
    /\ Scored
    /\ model_columns = RegistrySanitized
    /\ deal_for_model.valor = Num(5000)
    /\ deal_for_model.utm_source = Str(Google)
    /\ deal_for_model.utm_campaign = Str(Novel)
    /\ HasColumn(input_df_dummies, Column("utm_campaign", Novel))
    /\ final_df[1].value = 5000
    /\ final_df[2].value = 1
    /\ final_df[5].value = 0

\* C9: a category whose dummy column holds "[", "]" or "<" is matched to
\* the registry after the same rewriting on both sides, so the registry
\* column of the rewritten name holds the record's 1.
C9_SanitizedOnBothSides ==
    (Scored /\ deal_for_model.utm_source = Str(Bracket)) =>
        \A i \in 1..Len(model_columns) :
            regex_sub(model_columns[i]) = regex_sub(Column("utm_source", Bracket))
                => final_df[i].value = 1

\* C10: with an empty registry nothing is handed to the scorer and no event
\* is answered as processed.
C10_EmptyRegistryFailsFast ==
    model_columns = << >> =>
        /\ ~Scored
        /\ ~(pc = "done" /\ response.status = "ok"
                /\ Contains(response.message, " processado com sucesso."))

====
